---- MODULE Spec2Model ----
(***************************************************************************)
(* GitPet: the activity summarizer, the evolution classifier and the       *)
(* persisted-state lifecycle of the three front-ends                       *)
(*   - the command line            (main.go)                               *)
(*   - the tool server             (the MCP server, handleFeed & co.)      *)
(*   - the chat HTTP handler       (package handler)                       *)
(* Time is counted in whole seconds.  A commit message is a sequence of    *)
(* one-character strings, so that ToLower and Contains are computed.       *)
(***************************************************************************)
EXTENDS Integers, Sequences, FiniteSets, TLC

VARIABLES file, clock, res, pure, race

vars == <<file, clock, res, pure, race>>

----------------------------------------------------------------------------
(* Bounds of the model *)

\* the largest value of the logic counter the model follows
MaxLogic == 3
\* the largest value of the kindness counter the model follows
MaxKindness == 2
\* the longest event sequence given to the summarizers on their own
MaxEvents == 3

\* the most feeds over a merged pull request a pet has behind it when an
\* idle period starts (19 of them bring the default mood 5 to the ceiling)
MaxBoosts == 19

(* Program constants *)

\* 7 * 24 * time.Hour, in seconds
WindowSeconds == 604800
MoodFloor == 0
MoodCeiling == 100
DefaultMood == 5
LargePushSize == 10
PostCommitBoost == 3

\* the instant the model starts at (any instant later than the window)
Epoch == 1000000

----------------------------------------------------------------------------
(* Helpers of the Go runtime *)

min(a, b) == IF a < b THEN a ELSE b

max(a, b) == IF a > b THEN a ELSE b

minInt(a, b) == IF a < b THEN a ELSE b

maxInt(a, b) == IF a > b THEN a ELSE b

\* strings.ToLower, one character (unicode.ToLower on the letters A to Z)
ToLowerChar(c) ==
    CASE c = "A" -> "a"
      [] c = "B" -> "b"
      [] c = "C" -> "c"
      [] c = "D" -> "d"
      [] c = "E" -> "e"
      [] c = "F" -> "f"
      [] c = "G" -> "g"
      [] c = "H" -> "h"
      [] c = "I" -> "i"
      [] c = "J" -> "j"
      [] c = "K" -> "k"
      [] c = "L" -> "l"
      [] c = "M" -> "m"
      [] c = "N" -> "n"
      [] c = "O" -> "o"
      [] c = "P" -> "p"
      [] c = "Q" -> "q"
      [] c = "R" -> "r"
      [] c = "S" -> "s"
      [] c = "T" -> "t"
      [] c = "U" -> "u"
      [] c = "V" -> "v"
      [] c = "W" -> "w"
      [] c = "X" -> "x"
      [] c = "Y" -> "y"
      [] c = "Z" -> "z"
      [] OTHER -> c

\* strings.ToLower: the characters of s from the i-th on, lowered
RECURSIVE ToLowerFrom(_, _)
ToLowerFrom(s, i) ==
    IF i > Len(s) THEN <<>> ELSE <<ToLowerChar(s[i])>> \o ToLowerFrom(s, i + 1)

\* strings.ToLower
ToLower(s) == ToLowerFrom(s, 1)

\* strings.Contains
Contains(s, sub) ==
    \E i \in 0..(Len(s) - Len(sub)) : \A j \in 1..Len(sub) : s[i + j] = sub[j]

\* Before taking an equal instant for an earlier one
BeforeOrAt(t, u) == t <= u

\* time.Time.Before
Before(t, u) == t < u

\* the cutoff one second too early
CutoffEarly(now) == now - WindowSeconds - 1

\* cutoff := time.Now().Add(-7 * 24 * time.Hour)

Cutoff(now) == now - WindowSeconds

\* time.Now().UTC().Format(time.RFC3339): the text of an instant, to the
\* second; the empty string is the empty sequence
FormatRFC3339(t) == <<t>>

----------------------------------------------------------------------------
(* Keywords of the commit-message classifier *)

KwFix == <<"f","i","x">>
KwBug == <<"b","u","g">>
KwDoc == <<"d","o","c">>
KwReadme == <<"r","e","a","d","m","e">>
KwComment == <<"c","o","m","m","e","n","t">>
KwRefactor == <<"r","e","f","a","c","t","o","r">>
KwCleanup == <<"c","l","e","a","n","u","p">>
KwRemove == <<"r","e","m","o","v","e">>
KwDelete == <<"d","e","l","e","t","e">>

----------------------------------------------------------------------------
(* ActivitySummary, command line and tool server (no issues field) *)

ZeroSummary ==
    [commits |-> 0, mergedPRs |-> 0, reviews |-> 0, docComments |-> 0,
     refactorCommits |-> 0, newRepos |-> 0, largeCommits |-> 0, thoughts |-> 0,
     fixCommits |-> 0, docCommits |-> 0]

\* ActivitySummary of the chat handler (issues, no thoughts)
HandlerZeroSummary ==
    [commits |-> 0, mergedPRs |-> 0, reviews |-> 0, issues |-> 0,
     docComments |-> 0, refactorCommits |-> 0, newRepos |-> 0,
     largeCommits |-> 0, fixCommits |-> 0, docCommits |-> 0]

Bump(summary, field) == [summary EXCEPT ![field] = @ + 1]

----------------------------------------------------------------------------
(* Command line (main.go): classifyCommit, summarize, evolutionFor *)

\* classifyCommit with else-if between the categories: the first match only
classifyCommitExclusive(message, summary) ==
    LET lower == ToLower(message)
    IN  IF Contains(lower, KwFix) \/ Contains(lower, KwBug)
        THEN Bump(summary, "fixCommits")
        ELSE IF Contains(lower, KwDoc) \/ Contains(lower, KwReadme)
                \/ Contains(lower, KwComment)
        THEN Bump(summary, "docCommits")
        ELSE IF Contains(lower, KwRefactor) \/ Contains(lower, KwCleanup)
                \/ Contains(lower, KwRemove) \/ Contains(lower, KwDelete)
        THEN Bump(summary, "refactorCommits")
        ELSE summary

\* func classifyCommit(message string, summary *ActivitySummary)
classifyCommit(message, summary) ==
    LET lower == ToLower(message)
        s1 == IF Contains(lower, KwFix) \/ Contains(lower, KwBug)
              THEN Bump(summary, "fixCommits") ELSE summary
        s2 == IF Contains(lower, KwDoc) \/ Contains(lower, KwReadme)
                 \/ Contains(lower, KwComment)
              THEN Bump(s1, "docCommits") ELSE s1
        s3 == IF Contains(lower, KwRefactor) \/ Contains(lower, KwCleanup)
                 \/ Contains(lower, KwRemove) \/ Contains(lower, KwDelete)
              THEN Bump(s2, "refactorCommits") ELSE s2
    IN  s3

\* for _, commit := range payload.Commits { classifyCommit(commit.Message, &summary) }
RECURSIVE classifyCommits(_, _, _)
classifyCommits(commits, i, summary) ==
    IF i > Len(commits) THEN summary
    ELSE classifyCommits(commits, i + 1, classifyCommit(commits[i], summary))

\* onPush without summary.Commits += len(payload.Commits)
onPushNoCount(payload, summary) ==
    IF payload.ok
    THEN LET s2 == IF payload.size >= LargePushSize
                   THEN Bump(summary, "largeCommits") ELSE summary
         IN  classifyCommits(payload.commits, 1, s2)
    ELSE summary

\* onPush with payload.Size > 10 in place of payload.Size >= 10
onPushStrict(payload, summary) ==
    IF payload.ok
    THEN LET s1 == [summary EXCEPT !.commits = @ + Len(payload.commits)]
             s2 == IF payload.size > LargePushSize
                   THEN Bump(s1, "largeCommits") ELSE s1
         IN  classifyCommits(payload.commits, 1, s2)
    ELSE summary

\* case "PushEvent"
onPush(payload, summary) ==
    IF payload.ok
    THEN LET s1 == [summary EXCEPT !.commits = @ + Len(payload.commits)]
             s2 == IF payload.size >= LargePushSize
                   THEN Bump(s1, "largeCommits") ELSE s1
         IN  classifyCommits(payload.commits, 1, s2)
    ELSE summary

\* onPullRequest with summary.MergedPRs = 1 in place of summary.MergedPRs++
onPullRequestSet(payload, summary) ==
    IF payload.ok /\ payload.merged THEN [summary EXCEPT !.mergedPRs = 1] ELSE summary

\* onPullRequest without the test of payload.PullRequest.Merged
onPullRequestAny(payload, summary) ==
    IF payload.ok THEN Bump(summary, "mergedPRs") ELSE summary

\* case "PullRequestEvent"
onPullRequest(payload, summary) ==
    IF payload.ok /\ payload.merged THEN Bump(summary, "mergedPRs") ELSE summary

\* onCreate without the test of json.Unmarshal's error
onCreateUnchecked(payload, summary) ==
    IF payload.refType = "repository" THEN Bump(summary, "newRepos") ELSE summary

\* case "CreateEvent"
onCreate(payload, summary) ==
    IF payload.ok /\ payload.refType = "repository"
    THEN Bump(summary, "newRepos") ELSE summary

\* the body of the loop of summarize: one event
summarizeEvent(event, cutoff, summary) ==
    IF Before(event.created, cutoff) THEN summary
    ELSE CASE event.type = "PushEvent" -> onPush(event.payload, summary)
           [] event.type = "PullRequestEvent" -> onPullRequest(event.payload, summary)
           [] event.type = "PullRequestReviewEvent" -> Bump(summary, "reviews")
           [] event.type = "PullRequestReviewCommentEvent" ->
                  Bump(Bump(summary, "reviews"), "docComments")
           [] event.type = "IssueCommentEvent" -> Bump(summary, "docComments")
           [] event.type = "CreateEvent" -> onCreate(event.payload, summary)
           [] OTHER -> summary

\* for _, event := range events { ... }
RECURSIVE summarizeLoop(_, _, _, _)
summarizeLoop(events, i, cutoff, summary) ==
    IF i > Len(events) THEN summary
    ELSE summarizeLoop(events, i + 1, cutoff,
                       summarizeEvent(events[i], cutoff, summary))

\* func summarize(events []Event) ActivitySummary, time.Now() being now
summarize(events, now) == summarizeLoop(events, 1, Cutoff(now), ZeroSummary)

\* evolutionFor with >= in place of >: the last of the equal scores wins
evolutionForLateTie(summary) ==
    IF summary.commits + summary.mergedPRs + summary.reviews + summary.docComments
       + summary.refactorCommits + summary.newRepos = 0
    THEN "Lonely"
    ELSE LET pioneer == summary.commits + summary.newRepos * 2
             guardian == summary.reviews * 2 + summary.mergedPRs * 2 + summary.fixCommits
             bard == summary.docComments * 2 + summary.docCommits
             voidScore == summary.refactorCommits * 2
             b0 == [best |-> "Pioneer", bestScore |-> pioneer]
             b1 == IF guardian >= b0.bestScore
                   THEN [best |-> "Guardian", bestScore |-> guardian] ELSE b0
             b2 == IF bard >= b1.bestScore
                   THEN [best |-> "Bard", bestScore |-> bard] ELSE b1
             b3 == IF voidScore >= b2.bestScore
                   THEN [best |-> "Void", bestScore |-> voidScore] ELSE b2
         IN  b3.best

\* evolutionFor returning the empty label for an idle window
evolutionForEmptyIdle(summary) ==
    IF summary.commits + summary.mergedPRs + summary.reviews + summary.docComments
       + summary.refactorCommits + summary.newRepos = 0
    THEN ""
    ELSE evolutionForLateTie(summary)

\* func evolutionFor(summary ActivitySummary) string
evolutionFor(summary) ==
    IF summary.commits + summary.mergedPRs + summary.reviews + summary.docComments
       + summary.refactorCommits + summary.newRepos = 0
    THEN "Lonely"
    ELSE LET pioneer == summary.commits + summary.newRepos * 2
             guardian == summary.reviews * 2 + summary.mergedPRs * 2 + summary.fixCommits
             bard == summary.docComments * 2 + summary.docCommits
             voidScore == summary.refactorCommits * 2
             b0 == [best |-> "Pioneer", bestScore |-> pioneer]
             b1 == IF guardian > b0.bestScore
                   THEN [best |-> "Guardian", bestScore |-> guardian] ELSE b0
             b2 == IF bard > b1.bestScore
                   THEN [best |-> "Bard", bestScore |-> bard] ELSE b1
             b3 == IF voidScore > b2.bestScore
                   THEN [best |-> "Void", bestScore |-> voidScore] ELSE b2
         IN  b3.best

----------------------------------------------------------------------------
(* Tool server (the MCP server): classifyCommit, summarize, evolutionFor *)

\* func classifyCommit(message string, summary *ActivitySummary)
mcpClassifyCommit(message, summary) ==
    LET lower == ToLower(message)
        s1 == IF Contains(lower, KwFix) \/ Contains(lower, KwBug)
              THEN Bump(summary, "fixCommits") ELSE summary
        s2 == IF Contains(lower, KwDoc) \/ Contains(lower, KwReadme)
                 \/ Contains(lower, KwComment)
              THEN Bump(s1, "docCommits") ELSE s1
        s3 == IF Contains(lower, KwRefactor) \/ Contains(lower, KwCleanup)
                 \/ Contains(lower, KwRemove) \/ Contains(lower, KwDelete)
              THEN Bump(s2, "refactorCommits") ELSE s2
    IN  s3

\* for _, commit := range payload.Commits { classifyCommit(commit.Message, &summary) }
RECURSIVE mcpClassifyCommits(_, _, _)
mcpClassifyCommits(commits, i, summary) ==
    IF i > Len(commits) THEN summary
    ELSE mcpClassifyCommits(commits, i + 1, mcpClassifyCommit(commits[i], summary))

\* case "PushEvent"
mcpOnPush(payload, summary) ==
    IF payload.ok
    THEN LET s1 == [summary EXCEPT !.commits = @ + Len(payload.commits)]
             s2 == IF payload.size >= LargePushSize
                   THEN Bump(s1, "largeCommits") ELSE s1
         IN  mcpClassifyCommits(payload.commits, 1, s2)
    ELSE summary

\* case "PullRequestEvent"
mcpOnPullRequest(payload, summary) ==
    IF payload.ok /\ payload.merged THEN Bump(summary, "mergedPRs") ELSE summary

\* the tool server's create case without the test of the ref-type
mcpOnCreateAny(payload, summary) ==
    IF payload.ok THEN Bump(summary, "newRepos") ELSE summary

\* case "CreateEvent"
mcpOnCreate(payload, summary) ==
    IF payload.ok /\ payload.refType = "repository"
    THEN Bump(summary, "newRepos") ELSE summary

\* the body of the loop of summarize: one event
mcpSummarizeEvent(event, cutoff, summary) ==
    IF Before(event.created, cutoff) THEN summary
    ELSE CASE event.type = "PushEvent" -> mcpOnPush(event.payload, summary)
           [] event.type = "PullRequestEvent" -> mcpOnPullRequest(event.payload, summary)
           [] event.type = "PullRequestReviewEvent" -> Bump(summary, "reviews")
           [] event.type = "PullRequestReviewCommentEvent" ->
                  Bump(Bump(summary, "reviews"), "docComments")
           [] event.type = "IssueCommentEvent" -> Bump(summary, "docComments")
           [] event.type = "CreateEvent" -> mcpOnCreate(event.payload, summary)
           [] OTHER -> summary

\* for _, event := range events { ... }
RECURSIVE mcpSummarizeLoop(_, _, _, _)
mcpSummarizeLoop(events, i, cutoff, summary) ==
    IF i > Len(events) THEN summary
    ELSE mcpSummarizeLoop(events, i + 1, cutoff,
                       mcpSummarizeEvent(events[i], cutoff, summary))

\* func summarize(events []Event) ActivitySummary, time.Now() being now
mcpSummarize(events, now) == mcpSummarizeLoop(events, 1, Cutoff(now), ZeroSummary)

\* func evolutionFor(summary ActivitySummary) string
mcpEvolutionFor(summary) ==
    IF summary.commits + summary.mergedPRs + summary.reviews + summary.docComments
       + summary.refactorCommits + summary.newRepos = 0
    THEN "Lonely"
    ELSE LET pioneer == summary.commits + summary.newRepos * 2
             guardian == summary.reviews * 2 + summary.mergedPRs * 2 + summary.fixCommits
             bard == summary.docComments * 2 + summary.docCommits
             voidScore == summary.refactorCommits * 2
             b0 == [best |-> "Pioneer", bestScore |-> pioneer]
             b1 == IF guardian > b0.bestScore
                   THEN [best |-> "Guardian", bestScore |-> guardian] ELSE b0
             b2 == IF bard > b1.bestScore
                   THEN [best |-> "Bard", bestScore |-> bard] ELSE b1
             b3 == IF voidScore > b2.bestScore
                   THEN [best |-> "Void", bestScore |-> voidScore] ELSE b2
         IN  b3.best

----------------------------------------------------------------------------
(* Chat handler (package handler): classifyCommit, summarize, evolutionFor *)

\* func classifyCommit(message string, summary *ActivitySummary)
handlerClassifyCommit(message, summary) ==
    LET lower == ToLower(message)
        s1 == IF Contains(lower, KwFix) \/ Contains(lower, KwBug)
              THEN Bump(summary, "fixCommits") ELSE summary
        s2 == IF Contains(lower, KwDoc) \/ Contains(lower, KwReadme)
                 \/ Contains(lower, KwComment)
              THEN Bump(s1, "docCommits") ELSE s1
        s3 == IF Contains(lower, KwRefactor) \/ Contains(lower, KwCleanup)
                 \/ Contains(lower, KwRemove) \/ Contains(lower, KwDelete)
              THEN Bump(s2, "refactorCommits") ELSE s2
    IN  s3

\* for _, commit := range payload.Commits { classifyCommit(commit.Message, &summary) }
RECURSIVE handlerClassifyCommits(_, _, _)
handlerClassifyCommits(commits, i, summary) ==
    IF i > Len(commits) THEN summary
    ELSE handlerClassifyCommits(commits, i + 1, handlerClassifyCommit(commits[i], summary))

\* case "PushEvent"
handlerOnPush(payload, summary) ==
    IF payload.ok
    THEN LET s1 == [summary EXCEPT !.commits = @ + Len(payload.commits)]
             s2 == IF payload.size >= LargePushSize
                   THEN Bump(s1, "largeCommits") ELSE s1
         IN  handlerClassifyCommits(payload.commits, 1, s2)
    ELSE summary

\* case "PullRequestEvent"
handlerOnPullRequest(payload, summary) ==
    IF payload.ok /\ payload.merged THEN Bump(summary, "mergedPRs") ELSE summary

\* the body of the loop of summarize: one event
handlerSummarizeEvent(event, cutoff, summary) ==
    IF Before(event.created, cutoff) THEN summary
    ELSE CASE event.type = "PushEvent" -> handlerOnPush(event.payload, summary)
           [] event.type = "PullRequestEvent" -> handlerOnPullRequest(event.payload, summary)
           [] event.type \in {"PullRequestReviewEvent", "PullRequestReviewCommentEvent"} ->
                  Bump(Bump(summary, "reviews"), "docComments")
           [] event.type = "IssueCommentEvent" -> Bump(summary, "docComments")
           [] event.type = "IssuesEvent" -> Bump(summary, "issues")
           [] event.type = "CreateEvent" -> Bump(summary, "newRepos")
           [] OTHER -> summary

\* for _, event := range events { ... }
RECURSIVE handlerSummarizeLoop(_, _, _, _)
handlerSummarizeLoop(events, i, cutoff, summary) ==
    IF i > Len(events) THEN summary
    ELSE handlerSummarizeLoop(events, i + 1, cutoff,
                       handlerSummarizeEvent(events[i], cutoff, summary))

\* func summarize(events []Event) ActivitySummary, time.Now() being now
handlerSummarize(events, now) == handlerSummarizeLoop(events, 1, Cutoff(now), HandlerZeroSummary)

\* func evolutionFor(summary ActivitySummary) string
handlerEvolutionFor(summary) ==
    IF summary.commits + summary.mergedPRs + summary.reviews + summary.docComments
       + summary.refactorCommits + summary.newRepos + summary.issues = 0
    THEN "Lonely"
    ELSE LET pioneer == summary.commits + summary.newRepos * 2
             guardian == summary.reviews * 2 + summary.mergedPRs * 2 + summary.fixCommits
             bard == summary.docComments * 2 + summary.docCommits
             voidScore == summary.refactorCommits * 2
             b0 == [best |-> "Pioneer", bestScore |-> pioneer]
             b1 == IF guardian > b0.bestScore
                   THEN [best |-> "Guardian", bestScore |-> guardian] ELSE b0
             b2 == IF bard > b1.bestScore
                   THEN [best |-> "Bard", bestScore |-> bard] ELSE b1
             b3 == IF voidScore > b2.bestScore
                   THEN [best |-> "Void", bestScore |-> voidScore] ELSE b2
         IN  b3.best

\* func buildState(summary ActivitySummary) PetState, chat handler
buildState(summary) ==
    LET activityTotal == summary.commits + summary.mergedPRs + summary.reviews
                         + summary.docComments + summary.refactorCommits
                         + summary.newRepos + summary.issues
        mood == IF activityTotal = 0 THEN 2
                ELSE min(MoodCeiling, 10 + summary.commits + summary.mergedPRs * 5
                                      + summary.reviews + summary.docComments
                                      + summary.issues)
    IN  [mood |-> mood,
         kindness |-> summary.reviews * 2,
         logic |-> summary.commits + summary.mergedPRs * 3,
         evolution |-> handlerEvolutionFor(summary),
         activity |-> summary]

----------------------------------------------------------------------------
(* PetState and its file, ~/.config/gh/gh-pet.json *)

\* PetState{}
ZeroState ==
    [version |-> 0, lastSync |-> <<>>, mood |-> 0, kindness |-> 0, logic |-> 0,
     evolution |-> "", activity |-> ZeroSummary]

\* PetState{Mood: 5, Evolution: "Lonely"}
DefaultState == [ZeroState EXCEPT !.mood = DefaultMood, !.evolution = "Lonely"]

\* json.MarshalIndent(state, "", "  "): the struct under its json tags
Marshal(state) ==
    [version |-> state.version,
     last_sync |-> state.lastSync,
     mood |-> state.mood,
     kindness |-> state.kindness,
     logic_shards |-> state.logic,
     evolution |-> state.evolution,
     activity |->
        [commits |-> state.activity.commits,
         merged_prs |-> state.activity.mergedPRs,
         reviews |-> state.activity.reviews,
         doc_comments |-> state.activity.docComments,
         refactor_commits |-> state.activity.refactorCommits,
         new_repos |-> state.activity.newRepos,
         large_commits |-> state.activity.largeCommits,
         thought_fragments |-> state.activity.thoughts,
         fix_commits |-> state.activity.fixCommits,
         doc_commits |-> state.activity.docCommits]]

\* json.Unmarshal(data, &state) of a document that parses
Unmarshal(data) ==
    [version |-> data.version,
     lastSync |-> data.last_sync,
     mood |-> data.mood,
     kindness |-> data.kindness,
     logic |-> data.logic_shards,
     evolution |-> data.evolution,
     activity |->
        [commits |-> data.activity.commits,
         mergedPRs |-> data.activity.merged_prs,
         reviews |-> data.activity.reviews,
         docComments |-> data.activity.doc_comments,
         refactorCommits |-> data.activity.refactor_commits,
         newRepos |-> data.activity.new_repos,
         largeCommits |-> data.activity.large_commits,
         thoughts |-> data.activity.thought_fragments,
         fixCommits |-> data.activity.fix_commits,
         docCommits |-> data.activity.doc_commits]]

\* the state file: absent, holding a document, or present but not readable
\* or not parsable
NoFile == [kind |-> "missing", data |-> <<>>]

BadFile == [kind |-> "corrupt", data |-> <<>>]

FileOf(state) == [kind |-> "ok", data |-> <<Marshal(state)>>]

\* loadState answering a missing file with the zero PetState{}
loadStateZero(f) ==
    CASE f.kind = "missing" -> [state |-> ZeroState, err |-> FALSE]
      [] f.kind = "corrupt" -> [state |-> ZeroState, err |-> TRUE]
      [] OTHER -> [state |-> Unmarshal(f.data[1]), err |-> FALSE]

\* func loadState() (PetState, error)
loadState(f) ==
    CASE f.kind = "missing" -> [state |-> DefaultState, err |-> FALSE]
      [] f.kind = "corrupt" -> [state |-> ZeroState, err |-> TRUE]
      [] OTHER -> [state |-> Unmarshal(f.data[1]), err |-> FALSE]

\* func saveState(state PetState) error: the file afterwards; saveOk is
\* whether configPath, MkdirAll, MarshalIndent and WriteFile all succeed
saveState(f, state, saveOk) ==
    IF saveOk THEN [file |-> FileOf(state), err |-> FALSE]
    ELSE [file |-> f, err |-> TRUE]

----------------------------------------------------------------------------
(* Command line: feed and post-commit *)

\* feedState without the floor of the idle decay (state.Mood - 1 unclamped)
feedStateNoFloor(state, summary, thoughts, now) ==
    LET activityTotal == summary.commits + summary.mergedPRs + summary.reviews
                         + summary.docComments + summary.refactorCommits
                         + summary.newRepos
        m1 == IF activityTotal = 0
              THEN state.mood - 1
              ELSE min(MoodCeiling, state.mood + summary.commits
                                    + summary.mergedPRs * 5 + summary.reviews
                                    + summary.docComments)
        m2 == IF thoughts > 0 THEN min(MoodCeiling, m1 + 1) ELSE m1
    IN  [version |-> 1,
         lastSync |-> FormatRFC3339(now),
         mood |-> m2,
         kindness |-> state.kindness + summary.reviews * 2,
         logic |-> state.logic + summary.commits + summary.mergedPRs * 3,
         evolution |-> evolutionFor(summary),
         activity |-> summary]

\* feedState with the counters assigned instead of accumulated
feedStateAssign(state, summary, thoughts, now) ==
    LET activityTotal == summary.commits + summary.mergedPRs + summary.reviews
                         + summary.docComments + summary.refactorCommits
                         + summary.newRepos
        m1 == IF activityTotal = 0
              THEN max(MoodFloor, state.mood - 1)
              ELSE min(MoodCeiling, state.mood + summary.commits
                                    + summary.mergedPRs * 5 + summary.reviews
                                    + summary.docComments)
        m2 == IF thoughts > 0 THEN min(MoodCeiling, m1 + 1) ELSE m1
    IN  [version |-> 1,
         lastSync |-> FormatRFC3339(now),
         mood |-> m2,
         kindness |-> summary.reviews * 2,
         logic |-> summary.commits + summary.mergedPRs * 3,
         evolution |-> evolutionFor(summary),
         activity |-> summary]

\* feedState keeping the stored evolution over an idle window
feedStateKeepEvolution(state, summary, thoughts, now) ==
    LET activityTotal == summary.commits + summary.mergedPRs + summary.reviews
                         + summary.docComments + summary.refactorCommits
                         + summary.newRepos
        m1 == IF activityTotal = 0
              THEN max(MoodFloor, state.mood - 1)
              ELSE min(MoodCeiling, state.mood + summary.commits
                                    + summary.mergedPRs * 5 + summary.reviews
                                    + summary.docComments)
        m2 == IF thoughts > 0 THEN min(MoodCeiling, m1 + 1) ELSE m1
    IN  [version |-> 1,
         lastSync |-> FormatRFC3339(now),
         mood |-> m2,
         kindness |-> state.kindness + summary.reviews * 2,
         logic |-> state.logic + summary.commits + summary.mergedPRs * 3,
         evolution |-> IF activityTotal = 0 THEN state.evolution ELSE evolutionFor(summary),
         activity |-> summary]

\* feedState giving the local-change bonus only to an active window
feedStateBonusWhenActive(state, summary, thoughts, now) ==
    LET activityTotal == summary.commits + summary.mergedPRs + summary.reviews
                         + summary.docComments + summary.refactorCommits
                         + summary.newRepos
        m1 == IF activityTotal = 0
              THEN max(MoodFloor, state.mood - 1)
              ELSE min(MoodCeiling, state.mood + summary.commits
                                    + summary.mergedPRs * 5 + summary.reviews
                                    + summary.docComments)
        m2 == IF thoughts > 0 /\ activityTotal # 0 THEN min(MoodCeiling, m1 + 1) ELSE m1
    IN  [version |-> 1,
         lastSync |-> FormatRFC3339(now),
         mood |-> m2,
         kindness |-> state.kindness + summary.reviews * 2,
         logic |-> state.logic + summary.commits + summary.mergedPRs * 3,
         evolution |-> evolutionFor(summary),
         activity |-> summary]

\* feedState with state.Logic += summary.Commits + summary.MergedPRs
feedStateLogicPlain(state, summary, thoughts, now) ==
    LET activityTotal == summary.commits + summary.mergedPRs + summary.reviews
                         + summary.docComments + summary.refactorCommits
                         + summary.newRepos
        m1 == IF activityTotal = 0
              THEN max(MoodFloor, state.mood - 1)
              ELSE min(MoodCeiling, state.mood + summary.commits
                                    + summary.mergedPRs * 5 + summary.reviews
                                    + summary.docComments)
        m2 == IF thoughts > 0 THEN min(MoodCeiling, m1 + 1) ELSE m1
    IN  [version |-> 1,
         lastSync |-> FormatRFC3339(now),
         mood |-> m2,
         kindness |-> state.kindness + summary.reviews * 2,
         logic |-> state.logic + summary.commits + summary.mergedPRs,
         evolution |-> evolutionFor(summary),
         activity |-> summary]

\* feedState leaving the mood of an idle window as it was
feedStateIdleKeepsMood(state, summary, thoughts, now) ==
    LET activityTotal == summary.commits + summary.mergedPRs + summary.reviews
                         + summary.docComments + summary.refactorCommits
                         + summary.newRepos
        m1 == IF activityTotal = 0
              THEN state.mood
              ELSE min(MoodCeiling, state.mood + summary.commits
                                    + summary.mergedPRs * 5 + summary.reviews
                                    + summary.docComments)
        m2 == IF thoughts > 0 THEN min(MoodCeiling, m1 + 1) ELSE m1
    IN  [version |-> 1,
         lastSync |-> FormatRFC3339(now),
         mood |-> m2,
         kindness |-> state.kindness + summary.reviews * 2,
         logic |-> state.logic + summary.commits + summary.mergedPRs * 3,
         evolution |-> evolutionFor(summary),
         activity |-> summary]

\* runFeed, from activityTotal to state.Version = 1
feedState(state, summary, thoughts, now) ==
    LET activityTotal == summary.commits + summary.mergedPRs + summary.reviews
                         + summary.docComments + summary.refactorCommits
                         + summary.newRepos
        m1 == IF activityTotal = 0
              THEN max(MoodFloor, state.mood - 1)
              ELSE min(MoodCeiling, state.mood + summary.commits
                                    + summary.mergedPRs * 5 + summary.reviews
                                    + summary.docComments)
        m2 == IF thoughts > 0 THEN min(MoodCeiling, m1 + 1) ELSE m1
    IN  [version |-> 1,
         lastSync |-> FormatRFC3339(now),
         mood |-> m2,
         kindness |-> state.kindness + summary.reviews * 2,
         logic |-> state.logic + summary.commits + summary.mergedPRs * 3,
         evolution |-> evolutionFor(summary),
         activity |-> summary]

\* runFeed stamping and saving the state before the events are fetched
runFeedEarlySave(f, loginOk, eventsOk, events, now, thoughts, saveOk) ==
    LET state == loadState(f).state
        stamped == [state EXCEPT !.lastSync = FormatRFC3339(now), !.version = 1]
    IN  IF ~loginOk THEN [file |-> f, err |-> "login"]
        ELSE IF ~eventsOk THEN [file |-> saveState(f, stamped, TRUE).file, err |-> "events"]
        ELSE LET summary == [summarize(events, now) EXCEPT !.thoughts = thoughts]
                 saved == saveState(f, feedState(state, summary, thoughts, now), saveOk)
             IN  [file |-> saved.file, err |-> IF saved.err THEN "save" ELSE ""]

\* func runFeed() error: the file afterwards and the error returned
runFeed(f, loginOk, eventsOk, events, now, thoughts, saveOk) ==
    LET state == loadState(f).state
    IN  IF ~loginOk THEN [file |-> f, err |-> "login"]
        ELSE IF ~eventsOk THEN [file |-> f, err |-> "events"]
        ELSE LET summary == [summarize(events, now) EXCEPT !.thoughts = thoughts]
                 saved == saveState(f, feedState(state, summary, thoughts, now), saveOk)
             IN  [file |-> saved.file, err |-> IF saved.err THEN "save" ELSE ""]

\* postCommitSync taking a failed sync for an empty activity
postCommitSyncReset(state, loginOk, eventsOk, events, now) ==
    LET summary == IF loginOk /\ eventsOk THEN summarize(events, now) ELSE ZeroSummary
    IN  [state EXCEPT !.activity = summary,
                      !.evolution = evolutionFor(summary),
                      !.logic = @ + summary.commits + summary.mergedPRs * 3,
                      !.kindness = @ + summary.reviews * 2]

\* postCommitSync storing the new activity without state.Evolution = evolutionFor(summary)
postCommitSyncKeepsEvolution(state, loginOk, eventsOk, events, now) ==
    IF loginOk /\ eventsOk
    THEN LET summary == summarize(events, now)
         IN  [state EXCEPT !.activity = summary,
                           !.logic = @ + summary.commits + summary.mergedPRs * 3,
                           !.kindness = @ + summary.reviews * 2]
    ELSE state

\* runPostCommit, the auto-sync of the GitHub activity
postCommitSync(state, loginOk, eventsOk, events, now) ==
    IF loginOk /\ eventsOk
    THEN LET summary == summarize(events, now)
         IN  [state EXCEPT !.activity = summary,
                           !.evolution = evolutionFor(summary),
                           !.logic = @ + summary.commits + summary.mergedPRs * 3,
                           !.kindness = @ + summary.reviews * 2]
    ELSE state

\* postCommitBoost without the replacement of Lonely by Pioneer
postCommitBoostNoRename(state, now) ==
    [state EXCEPT !.mood = min(MoodCeiling, @ + PostCommitBoost),
                  !.logic = @ + 1,
                  !.lastSync = FormatRFC3339(now),
                  !.version = 1]

\* runPostCommit, from the mood boost to state.Evolution = "Pioneer"
postCommitBoost(state, now) ==
    [state EXCEPT !.mood = min(MoodCeiling, @ + PostCommitBoost),
                  !.logic = @ + 1,
                  !.lastSync = FormatRFC3339(now),
                  !.version = 1,
                  !.evolution = IF @ = "" \/ @ = "Lonely" THEN "Pioneer" ELSE @]

\* func runPostCommit() error: the file afterwards and the error returned
runPostCommit(f, loginOk, eventsOk, events, now, saveOk) ==
    LET state == loadState(f).state
        synced == postCommitSync(state, loginOk, eventsOk, events, now)
        saved == saveState(f, postCommitBoost(synced, now), saveOk)
    IN  [file |-> saved.file, err |-> IF saved.err THEN "save" ELSE ""]

\* runStatus saving the state it renders
runStatusSaves(f) ==
    LET state == loadState(f).state
        shown == IF state.evolution = "" THEN [state EXCEPT !.evolution = "Lonely"]
                 ELSE state
    IN  [file |-> saveState(f, shown, TRUE).file, err |-> "", shown |-> shown]

\* func runStatus() error: the file afterwards, the error returned and the
\* state that is rendered
runStatus(f) ==
    LET state == loadState(f).state
        shown == IF state.evolution = "" THEN [state EXCEPT !.evolution = "Lonely"]
                 ELSE state
    IN  [file |-> f, err |-> "", shown |-> shown]

\* func runPrompt(): the file afterwards and the state that is printed
runPrompt(f) ==
    LET state == loadState(f).state
        shown == IF state.evolution = "" THEN [state EXCEPT !.evolution = "Lonely"]
                 ELSE state
    IN  [file |-> f, err |-> "", shown |-> shown]

\* func runSuggest() error: the file afterwards, the error returned (that of
\* `gh copilot suggest`) and the personality and mood put into the prompt
runSuggest(f, cmdOk) ==
    LET state == loadState(f).state
        personality == IF state.evolution = "" \/ state.evolution = "Lonely"
                       THEN "Companion" ELSE state.evolution
    IN  [file |-> f, err |-> IF cmdOk THEN "" ELSE "copilot",
         shown |-> [evolution |-> personality, mood |-> state.mood]]

----------------------------------------------------------------------------
(* Tool server: pet_feed *)

\* handleFeed, from activityTotal to state.Version = 1
mcpFeedState(state, summary, thoughts, now) ==
    LET activityTotal == summary.commits + summary.mergedPRs + summary.reviews
                         + summary.docComments + summary.refactorCommits
                         + summary.newRepos
        m1 == IF activityTotal = 0
              THEN maxInt(MoodFloor, state.mood - 1)
              ELSE minInt(MoodCeiling, state.mood + summary.commits
                                       + summary.mergedPRs * 5 + summary.reviews
                                       + summary.docComments)
        m2 == IF thoughts > 0 THEN minInt(MoodCeiling, m1 + 1) ELSE m1
    IN  [version |-> 1,
         lastSync |-> FormatRFC3339(now),
         mood |-> m2,
         kindness |-> state.kindness + summary.reviews * 2,
         logic |-> state.logic + summary.commits + summary.mergedPRs * 3,
         evolution |-> mcpEvolutionFor(summary),
         activity |-> summary]

\* func handleFeed(...): the file afterwards and the error in the tool result;
\* eventsOk is whether fetchEvents (gh, then plain HTTP) returns events
handleFeed(f, loginOk, eventsOk, events, now, thoughts, saveOk) ==
    LET state == loadState(f).state
    IN  IF ~loginOk THEN [file |-> f, err |-> "login"]
        ELSE IF ~eventsOk THEN [file |-> f, err |-> "events"]
        ELSE LET summary == [mcpSummarize(events, now) EXCEPT !.thoughts = thoughts]
                 saved == saveState(f, mcpFeedState(state, summary, thoughts, now), saveOk)
             IN  [file |-> saved.file, err |-> IF saved.err THEN "save" ELSE ""]

\* func handleStatus: the file afterwards and the state that is rendered
handleStatus(f) ==
    LET state == loadState(f).state
        shown == IF state.evolution = "" THEN [state EXCEPT !.evolution = "Lonely"]
                 ELSE state
    IN  [file |-> f, err |-> "", shown |-> shown]

\* func handleSuggest: the file afterwards and the personality and mood the
\* suggestions are generated from
handleSuggest(f) ==
    LET state == loadState(f).state
        personality == IF state.evolution = "" \/ state.evolution = "Lonely"
                       THEN "Companion" ELSE state.evolution
    IN  [file |-> f, err |-> "",
         shown |-> [evolution |-> personality, mood |-> state.mood]]

----------------------------------------------------------------------------
(* Chat handler: the request *)

\* func Handler(w, r): the handler has no state file of its own and never
\* calls loadState or saveState, so the file f of the machine it runs on is
\* what it was; the state rendered is built from the events alone
Handler(f, post, decoded, login, eventsOk, events, now) ==
    CASE ~post -> [file |-> f, err |-> "method", shown |-> [evolution |-> "", mood |-> 0]]
      [] ~decoded -> [file |-> f, err |-> "json", shown |-> [evolution |-> "", mood |-> 0]]
      [] ~login -> [file |-> f, err |-> "login", shown |-> [evolution |-> "", mood |-> 0]]
      [] ~eventsOk -> [file |-> f, err |-> "events", shown |-> [evolution |-> "", mood |-> 0]]
      [] OTHER -> [file |-> f, err |-> "",
                   shown |-> buildState(handlerSummarize(events, now))]

----------------------------------------------------------------------------
(* Events as the event source returns them.  A payload is recorded by what *)
(* json.Unmarshal makes of it: ok (it parses) and the fields read from it. *)

Payload(ok, size, commits, merged, refType) ==
    [ok |-> ok, size |-> size, commits |-> commits, merged |-> merged,
     refType |-> refType]

Event(type, created, payload) ==
    [type |-> type, created |-> created, payload |-> payload]

EmptyPayload == Payload(TRUE, 0, <<>>, FALSE, "")

BrokenPayload == Payload(FALSE, 0, <<>>, FALSE, "")

\* a payload json.Unmarshal filled in before it returned an error
BrokenPartial == Payload(FALSE, 10, <<<<"f","i","x">>>>, TRUE, "repository")

\* "wip"
MsgPlain == <<"w","i","p">>
\* "Fix"
MsgFix == <<"F","i","x">>
\* "docs"
MsgDocs == <<"d","o","c","s">>
\* "Delete"
MsgDelete == <<"D","e","l","e","t","e">>
\* "BUG: remove doc"
MsgAll == <<"B","U","G",":"," ","r","e","m","o","v","e"," ","d","o","c">>

EvPush(t, size, commits) == Event("PushEvent", t, Payload(TRUE, size, commits, FALSE, ""))

EvPullRequest(t, merged) == Event("PullRequestEvent", t, Payload(TRUE, 0, <<>>, merged, ""))

EvReview(t) == Event("PullRequestReviewEvent", t, EmptyPayload)

EvReviewComment(t) == Event("PullRequestReviewCommentEvent", t, EmptyPayload)

EvIssueComment(t) == Event("IssueCommentEvent", t, EmptyPayload)

EvIssues(t) == Event("IssuesEvent", t, EmptyPayload)

EvCreate(t, refType) == Event("CreateEvent", t, Payload(TRUE, 0, <<>>, FALSE, refType))

EvWatch(t) == Event("WatchEvent", t, EmptyPayload)

\* the event batches the event source answers a feed or a post-commit with
FeedBatches(now) ==
    { <<>>,
      <<EvIssueComment(now)>>,
      <<EvReview(now)>>,
      <<EvPullRequest(now, TRUE)>>,
      <<EvPush(now, 1, <<MsgDelete>>)>>,
      <<EvPush(now, 10, <<MsgPlain>>)>>,
      <<EvIssueComment(now - WindowSeconds - 1)>> }

\* the events the summarizers are given on their own
PureEvents(now) ==
    { EvPush(now, 1, <<MsgFix>>),
      EvPush(now, 10, <<MsgPlain, MsgDocs>>),
      EvPush(now, 9, <<MsgAll>>),
      Event("PushEvent", now, BrokenPayload),
      EvPullRequest(now, TRUE),
      EvPullRequest(now, FALSE),
      EvReviewComment(now),
      EvIssueComment(now),
      EvIssues(now),
      EvCreate(now, "repository"),
      EvCreate(now, "branch"),
      EvWatch(now),
      EvReview(now - WindowSeconds + 1),
      EvReview(now - WindowSeconds),
      EvReview(now - WindowSeconds - 1),
      EvPush(now - WindowSeconds - 1, 10, <<MsgDelete>>) }

SeqsUpTo(S, n) == UNION { [1..k -> S] : k \in 0..n }

\* reviews=3, mergedPRs=2, fixCommits=1
ExampleGuardian(now) ==
    <<EvReview(now), EvReview(now), EvReview(now), EvPullRequest(now, TRUE),
      EvPullRequest(now, TRUE), EvPush(now, 1, <<MsgFix>>)>>

\* commits=4 alone
ExamplePioneer(now) ==
    <<EvPush(now, 4, <<MsgPlain, MsgPlain, MsgPlain, MsgPlain>>)>>

\* one push with a fix message, a docs message and a plain message
ExampleClassifier(now) ==
    <<EvPush(now, 3, <<MsgFix, MsgDocs, MsgPlain>>)>>

\* unparsable payloads of the three parsed types and an unknown type among
\* events that count
ExampleBroken(now) ==
    <<Event("PushEvent", now, BrokenPartial), EvReview(now),
      Event("PullRequestEvent", now, BrokenPartial),
      Event("CreateEvent", now, BrokenPartial), EvWatch(now), EvIssueComment(now)>>

PureInputs(now) ==
    SeqsUpTo(PureEvents(now), MaxEvents)
        \cup {ExampleGuardian(now), ExamplePioneer(now), ExampleClassifier(now),
              ExampleBroken(now)}

----------------------------------------------------------------------------
(* The state machine *)

NoRes == [op |-> "none", sync |-> "", err |-> "", loaded |-> "missing"]

\* the summarizers are not run on their own
PureOff == [pc |-> "off"]

\* no two invocations overlap
RaceOff == [pc |-> <<>>]

\* the summarizers are about to be run on the events evs
PureStart(evs) ==
    [pc |-> "input", evs |-> evs, now |-> Epoch,
     sum |-> ZeroSummary, mcpSum |-> ZeroSummary, handlerSum |-> HandlerZeroSummary,
     evo |-> "", mcpEvo |-> "", handlerEvo |-> ""]

\* no state file yet, no invocation yet
Init ==
    /\ file = NoFile
    /\ clock = Epoch
    /\ res = NoRes
    /\ pure = PureOff
    /\ race = RaceOff

\* the counters stay within the bounds of the model
InBounds(f) ==
    f.kind = "ok" =>
        /\ f.data[1].logic_shards <= MaxLogic
        /\ f.data[1].kindness <= MaxKindness

\* what an invocation leaves behind: the file, and what it reported
Outcome(op, out, sync) ==
    \E o \in {out} :
        /\ InBounds(o.file)
        /\ file' = o.file
        /\ res' = [op |-> op, sync |-> sync, err |-> o.err, loaded |-> file.kind]
        /\ UNCHANGED <<clock, pure, race>>

\* gh pet feed: the login lookup fails, the event fetch fails, the save fails
\* (the file is then left as it was, whatever was computed), or all succeed
Feed ==
    \/ Outcome("feed", runFeed(file, FALSE, TRUE, <<>>, clock, 0, TRUE), "login")
    \/ Outcome("feed", runFeed(file, TRUE, FALSE, <<>>, clock, 0, TRUE), "events")
    \/ Outcome("feed", runFeed(file, TRUE, TRUE, <<>>, clock, 0, FALSE), "ok")
    \/ \E events \in FeedBatches(clock), thoughts \in {0, 1} :
          Outcome("feed", runFeed(file, TRUE, TRUE, events, clock, thoughts, TRUE), "ok")

\* the pet_feed tool
PetFeed ==
    \/ Outcome("pet_feed", handleFeed(file, FALSE, TRUE, <<>>, clock, 0, TRUE), "login")
    \/ Outcome("pet_feed", handleFeed(file, TRUE, FALSE, <<>>, clock, 0, TRUE), "events")
    \/ Outcome("pet_feed", handleFeed(file, TRUE, TRUE, <<>>, clock, 0, FALSE), "ok")
    \/ \E events \in FeedBatches(clock), thoughts \in {0, 1} :
          Outcome("pet_feed",
                  handleFeed(file, TRUE, TRUE, events, clock, thoughts, TRUE), "ok")

\* gh pet post-commit: a failed login lookup or event fetch skips the sync
PostCommit ==
    \/ \E saveOk \in BOOLEAN :
          Outcome("post-commit",
                  runPostCommit(file, FALSE, TRUE, <<>>, clock, saveOk), "login")
    \/ \E saveOk \in BOOLEAN :
          Outcome("post-commit",
                  runPostCommit(file, TRUE, FALSE, <<>>, clock, saveOk), "events")
    \/ Outcome("post-commit", runPostCommit(file, TRUE, TRUE, <<>>, clock, FALSE), "ok")
    \/ \E events \in FeedBatches(clock) :
          Outcome("post-commit",
                  runPostCommit(file, TRUE, TRUE, events, clock, TRUE), "ok")

\* gh pet status: nothing is saved
Status ==
    Outcome("status", runStatus(file), "")

\* the state file becomes unreadable or unparsable (permissions, a torn or
\* hand-edited document)
CorruptFile ==
    /\ file.kind = "ok"
    /\ file' = BadFile
    /\ UNCHANGED <<clock, res, pure, race>>

Next == Feed \/ PetFeed \/ PostCommit \/ Status

Spec == Init /\ [][Next]_vars

NextFault == Next \/ CorruptFile

SpecFault == Init /\ [][NextFault]_vars

----------------------------------------------------------------------------
(* The summarizers and classifiers on their own *)

PureInit ==
    /\ file = NoFile
    /\ clock = Epoch
    /\ res = NoRes
    /\ pure \in { PureStart(e) : e \in PureInputs(Epoch) }
    /\ race = RaceOff

\* the three copies of summarize are applied to the events
Summarize ==
    /\ pure.pc = "input"
    /\ pure' = [pure EXCEPT !.pc = "summarized",
                            !.sum = summarize(pure.evs, pure.now),
                            !.mcpSum = mcpSummarize(pure.evs, pure.now),
                            !.handlerSum = handlerSummarize(pure.evs, pure.now)]
    /\ UNCHANGED <<file, clock, res, race>>

\* the three copies of evolutionFor are applied to the summaries
Classify ==
    /\ pure.pc = "summarized"
    /\ pure' = [pure EXCEPT !.pc = "classified",
                            !.evo = evolutionFor(pure.sum),
                            !.mcpEvo = mcpEvolutionFor(pure.mcpSum),
                            !.handlerEvo = buildState(pure.handlerSum).evolution]
    /\ UNCHANGED <<file, clock, res, race>>

PureNext == Summarize \/ Classify

SpecPure == PureInit /\ [][PureNext]_vars

\* the summarizers alone: summarize is run on the events and nothing follows
SummarizeNext == Summarize

SpecSummarize == PureInit /\ [][SummarizeNext]_vars

----------------------------------------------------------------------------
(* The surfaces that only read the state *)

\* the state files the surfaces are run on: none, an unreadable one, and
\* those left by a feed or a post-commit on a fresh install
SurfaceFiles ==
    {NoFile, BadFile}
    \cup { runFeed(NoFile, TRUE, TRUE, events, Epoch, thoughts, TRUE).file :
              events \in FeedBatches(Epoch), thoughts \in {0, 1} }
    \cup { runPostCommit(NoFile, TRUE, TRUE, events, Epoch, TRUE).file :
              events \in FeedBatches(Epoch) }
    \cup { runPostCommit(BadFile, FALSE, TRUE, <<>>, Epoch, TRUE).file }

SurfaceInit ==
    /\ file \in SurfaceFiles
    /\ clock = Epoch
    /\ res = NoRes
    /\ pure = PureOff
    /\ race = RaceOff

\* what a surface leaves behind: the file, what it reported and what it showed
Shown(op, out) ==
    /\ file' = out.file
    /\ res' = [op |-> op, sync |-> "", err |-> out.err, loaded |-> file.kind,
               shown |-> out.shown]
    /\ UNCHANGED <<clock, pure, race>>

\* gh pet status
ShowStatus == Shown("status", runStatus(file))

\* gh pet prompt
Prompt == Shown("prompt", runPrompt(file))

\* gh pet suggest: `gh copilot suggest` succeeds or fails
Suggest == \E cmdOk \in BOOLEAN : Shown("suggest", runSuggest(file, cmdOk))

\* the pet_status tool
PetStatus == Shown("pet_status", handleStatus(file))

\* the pet_suggest tool
PetSuggest == Shown("pet_suggest", handleSuggest(file))

\* a request to the chat handler: not a POST, an undecodable body, no login,
\* a failed event fetch, or the events of some user
Chat ==
    \/ Shown("chat", Handler(file, FALSE, TRUE, TRUE, TRUE, <<>>, clock))
    \/ Shown("chat", Handler(file, TRUE, FALSE, TRUE, TRUE, <<>>, clock))
    \/ Shown("chat", Handler(file, TRUE, TRUE, FALSE, TRUE, <<>>, clock))
    \/ Shown("chat", Handler(file, TRUE, TRUE, TRUE, FALSE, <<>>, clock))
    \/ \E events \in FeedBatches(clock) :
          Shown("chat", Handler(file, TRUE, TRUE, TRUE, TRUE, events, clock))

SurfaceNext == ShowStatus \/ Prompt \/ Suggest \/ PetStatus \/ PetSuggest \/ Chat

SpecSurfaces == SurfaceInit /\ [][SurfaceNext]_vars

----------------------------------------------------------------------------
(* An idle period: nothing but successful feeds over windows without       *)
(* counted activity, in a working tree without local changes               *)

\* the state after k >= 1 feeds over a window holding one merged pull
\* request: the first leaves feedState(DefaultState, ...), and each of them
\* adds 5 to the mood, up to the ceiling, and 3 to logic
AfterMerges(k) ==
    [feedState(DefaultState, summarize(<<EvPullRequest(Epoch, TRUE)>>, Epoch), 0, Epoch)
        EXCEPT !.mood = min(MoodCeiling, DefaultMood + 5 * k),
               !.logic = 3 * k]

\* what the event source returns in an idle period: nothing, an event of a
\* type that is not counted, an unmerged pull request, or a merged pull
\* request older than the window
IdleBatches(now) ==
    { <<>>, <<EvWatch(now)>>, <<EvPullRequest(now, FALSE)>>,
      <<EvPullRequest(now - WindowSeconds - 1, TRUE)>> }

\* the idle period starts on a fresh install or after 1..MaxBoosts feeds
\* over a merged pull request
DecayInit ==
    /\ file \in {NoFile} \cup { FileOf(AfterMerges(k)) : k \in 1..MaxBoosts }
    /\ clock = Epoch
    /\ res = NoRes
    /\ pure = PureOff
    /\ race = RaceOff

\* what a successful feed of the idle period leaves behind
Fed(op, out) ==
    /\ file' = out.file
    /\ res' = [op |-> op, sync |-> "ok", err |-> out.err, loaded |-> file.kind]
    /\ UNCHANGED <<clock, pure, race>>

\* gh pet feed, everything succeeding
IdleFeed ==
    \E events \in IdleBatches(clock) :
        Fed("feed", runFeed(file, TRUE, TRUE, events, clock, 0, TRUE))

\* the pet_feed tool, everything succeeding
IdlePetFeed ==
    \E events \in IdleBatches(clock) :
        Fed("pet_feed", handleFeed(file, TRUE, TRUE, events, clock, 0, TRUE))

DecayNext == IdleFeed \/ IdlePetFeed

\* feeds keep being invoked: the period does not end
SpecDecay == DecayInit /\ [][DecayNext]_vars /\ WF_vars(DecayNext)

----------------------------------------------------------------------------
(* Two overlapping invocations of gh pet feed.  Each is a process of its   *)
(* own: it loads, fetches and computes, and saves with os.WriteFile, which  *)
(* opens the file with O_WRONLY|O_CREATE|O_TRUNC, writes the document at    *)
(* offset 0 and closes it.  Nothing orders the steps of one process against *)
(* those of the other.                                                      *)

\* strconv of a non-negative int: the number of its digits
RECURSIVE Digits(_)
Digits(n) == IF n < 10 THEN 1 ELSE 1 + Digits(n \div 10)

\* len(data) of a document MarshalIndent returns, less the bytes that are
\* the same in every document (keys, punctuation, indentation and the 20
\* characters of the time stamp): the digits of the numbers and the label
DocLen(data) ==
    Digits(data.version) + Digits(data.mood) + Digits(data.kindness)
    + Digits(data.logic_shards) + Len(data.evolution)
    + Digits(data.activity.commits) + Digits(data.activity.merged_prs)
    + Digits(data.activity.reviews) + Digits(data.activity.doc_comments)
    + Digits(data.activity.refactor_commits) + Digits(data.activity.new_repos)
    + Digits(data.activity.large_commits) + Digits(data.activity.thought_fragments)
    + Digits(data.activity.fix_commits) + Digits(data.activity.doc_commits)

\* the length of the file, 0 for no file and for an empty one
FileLen(f) == IF f.kind = "ok" THEN DocLen(f.data[1]) ELSE 0

Procs == {1, 2}

\* both processes are about to start; len is the length of the file, last
\* the process that wrote last, opened whether the file has been opened for
\* writing, overlap whether every load so far came before every open
RaceStart(f) ==
    [pc |-> <<"start", "start">>,
     state |-> <<ZeroState, ZeroState>>,
     len |-> FileLen(f),
     last |-> 0,
     opened |-> FALSE,
     overlap |-> TRUE]

\* the file the two invocations find: none, or that of a pet fed once or
\* up to the ceiling of the mood
RaceInit ==
    /\ file \in {NoFile, FileOf(AfterMerges(1)), FileOf(AfterMerges(MaxBoosts))}
    /\ clock = Epoch
    /\ res = NoRes
    /\ pure = PureOff
    /\ race = RaceStart(file)

\* runFeed: state, _ := loadState()
RaceLoad(p) ==
    /\ race.pc[p] = "start"
    /\ race' = [race EXCEPT !.pc[p] = "loaded",
                            !.state[p] = loadState(file).state,
                            !.overlap = @ /\ ~race.opened]
    /\ UNCHANGED <<file, clock, res, pure>>

\* runFeed, from ghLogin to state.Version = 1, all succeeding
RaceCompute(p) ==
    /\ race.pc[p] = "loaded"
    /\ \E events \in FeedBatches(clock), thoughts \in {0, 1} :
          race' = [race EXCEPT
                      !.pc[p] = "computed",
                      !.state[p] = feedState(race.state[p],
                                             [summarize(events, clock)
                                                 EXCEPT !.thoughts = thoughts],
                                             thoughts, clock)]
    /\ UNCHANGED <<file, clock, res, pure>>

\* saveState, os.WriteFile: the open creates or truncates the file, which
\* is then empty, a document json.Unmarshal rejects
RaceOpen(p) ==
    /\ race.pc[p] = "computed"
    /\ file' = BadFile
    /\ race' = [race EXCEPT !.pc[p] = "opened", !.len = 0, !.opened = TRUE]
    /\ UNCHANGED <<clock, res, pure>>

\* saveState, os.WriteFile: the write puts the document at offset 0 and
\* leaves what the file holds beyond its end; bytes after the closing brace
\* make a document json.Unmarshal rejects; the close follows and saveState
\* returns nil
RaceWrite(p) ==
    /\ race.pc[p] = "opened"
    /\ LET data == Marshal(race.state[p])
       IN  /\ file' = IF race.len <= DocLen(data) THEN FileOf(race.state[p])
                       ELSE BadFile
           /\ race' = [race EXCEPT !.pc[p] = "done",
                                   !.len = max(@, DocLen(data)),
                                   !.last = p]
    /\ UNCHANGED <<clock, res, pure>>

RaceNext == \E p \in Procs : RaceLoad(p) \/ RaceCompute(p) \/ RaceOpen(p) \/ RaceWrite(p)

SpecRace == RaceInit /\ [][RaceNext]_vars

----------------------------------------------------------------------------
(* The persisted state, as the claims read it *)

\* the document in the state file
Doc == file.data[1]

\* the document a mutating invocation starts from: the one in the file, or
\* the defaults when there is no file
PrevDoc ==
    IF file.kind = "ok" THEN file.data[1]
    ELSE [version |-> 0, last_sync |-> <<>>, mood |-> 5, kindness |-> 0,
          logic_shards |-> 0, evolution |-> "Lonely",
          activity |-> [commits |-> 0, merged_prs |-> 0, reviews |-> 0,
                        doc_comments |-> 0, refactor_commits |-> 0, new_repos |-> 0,
                        large_commits |-> 0, thought_fragments |-> 0,
                        fix_commits |-> 0, doc_commits |-> 0]]

Mutating == {"feed", "pet_feed", "post-commit"}

\* the mood a feed leaves, from the mood before and the stored activity
ExpectedFeedMood(mood, a) ==
    LET total == a.commits + a.merged_prs + a.reviews + a.doc_comments
                 + a.refactor_commits + a.new_repos
        gain == mood + a.commits + 5 * a.merged_prs + a.reviews + a.doc_comments
        base == IF total = 0 THEN (IF mood - 1 < 0 THEN 0 ELSE mood - 1)
                ELSE (IF gain > 100 THEN 100 ELSE gain)
    IN  IF a.thought_fragments > 0 /\ base < 100 THEN base + 1 ELSE base

----------------------------------------------------------------------------
(* C1: after every feed, pet_feed and post-commit invocation, successful or *)
(* failed, the persisted mood lies between 0 and 100.                       *)

C1_MoodClamped == file.kind = "ok" => (Doc.mood >= 0 /\ Doc.mood <= 100)

\* a feed has saved the mood 0 over an idle window
C1_Witness ==
    /\ file.kind = "ok"
    /\ res.op \in {"feed", "pet_feed"}
    /\ res.err = ""
    /\ Doc.mood = 0
    /\ Doc.activity.commits + Doc.activity.doc_comments + Doc.activity.reviews = 0

\* the ceiling is reached as well
C1_WitnessCeiling == file.kind = "ok" /\ res.err = "" /\ Doc.mood = 100

(* C2: in a run of feed, pet_feed, post-commit and status invocations the   *)
(* persisted kindness and logic counters never decrease from one persisted  *)
(* state to the next.                                                       *)

C2_CountersMonotone ==
    [][file'.kind = "ok" =>
          /\ file'.data[1].kindness >= PrevDoc.kindness
          /\ file'.data[1].logic_shards >= PrevDoc.logic_shards]_vars

\* an invocation that added nothing to kindness has saved over a state with
\* kindness and logic already earned
C2_Witness ==
    /\ file.kind = "ok"
    /\ res.op \in Mutating
    /\ res.err = ""
    /\ res.loaded = "ok"
    /\ Doc.activity.reviews = 0
    /\ Doc.kindness = 2
    /\ Doc.logic_shards >= 2

(* C3: when the login lookup or the event fetch fails during feed or        *)
(* pet_feed, the invocation reports an error and the persisted state is     *)
(* left exactly as it was.                                                  *)

C3_FeedFailureLeavesState ==
    [][(res'.op \in {"feed", "pet_feed"} /\ res'.sync \in {"login", "events"}) =>
          (res'.err # "" /\ file' = file)]_vars

\* pet_feed has failed on the event fetch with a state on disk
C3_Witness ==
    /\ res.op = "pet_feed"
    /\ res.sync = "events"
    /\ res.err = "events"
    /\ file.kind = "ok"
    /\ Doc.kindness > 0

\* feed has failed on the login lookup with a state on disk
C3_WitnessLogin ==
    res.op = "feed" /\ res.sync = "login" /\ res.err = "login" /\ file.kind = "ok"

(* C4, as claimed: when the login lookup or the event fetch fails during a  *)
(* post-commit invocation, the failure is fatal to that invocation and the  *)
(* persisted state is not mutated.                                          *)

C5_UnreadableStateIsFatal ==
    [][(file.kind = "corrupt" /\ res'.op \in Mutating) =>
          (res'.err # "" /\ file' = file)]_vars

(* C6: when no state file exists, loading is not an error and yields        *)
(* mood 5, evolution Lonely, kindness 0, logic 0 and an empty last-sync;    *)
(* the first successful feed computes its next state from these defaults.   *)

C6_FirstFeedFromDefaults ==
    [][(file.kind = "missing" /\ res'.op = "feed" /\ res'.err = "") =>
          /\ ~loadState(file).err
          /\ Marshal(loadState(file).state) = PrevDoc
          /\ file'.kind = "ok"
          /\ file'.data[1].mood = ExpectedFeedMood(5, file'.data[1].activity)
          /\ file'.data[1].kindness = 2 * file'.data[1].activity.reviews
          /\ file'.data[1].logic_shards =
                 file'.data[1].activity.commits + 3 * file'.data[1].activity.merged_prs
          /\ file'.data[1].evolution \in {"Lonely", "Pioneer", "Guardian", "Bard", "Void"}
          /\ (file'.data[1].activity.commits + file'.data[1].activity.merged_prs
              + file'.data[1].activity.reviews + file'.data[1].activity.doc_comments = 0
                 => file'.data[1].evolution = "Lonely")]_vars

\* the first feed, over an idle window, has saved mood 4 from the default 5
C6_Witness ==
    /\ res.op = "feed"
    /\ res.err = ""
    /\ res.loaded = "missing"
    /\ file.kind = "ok"
    /\ Doc.mood = 4
    /\ Doc.evolution = "Lonely"

AllZeroDoc(a) ==
    /\ a.commits = 0 /\ a.merged_prs = 0 /\ a.reviews = 0 /\ a.doc_comments = 0
    /\ a.refactor_commits = 0 /\ a.new_repos = 0 /\ a.large_commits = 0
    /\ a.thought_fragments = 0 /\ a.fix_commits = 0 /\ a.doc_commits = 0

Feeds == {"feed", "pet_feed"}

(* C11: a successful feed whose summary has every field zero, with no local *)
(* changes, saves mood = max(0, previous mood - 1) and evolution Lonely,    *)
(* whatever state it started from.                                          *)

C11_IdleFeedDecays ==
    [][(res'.op \in Feeds /\ res'.err = "" /\ AllZeroDoc(file'.data[1].activity)) =>
          /\ file'.data[1].mood = (IF PrevDoc.mood - 1 < 0 THEN 0 ELSE PrevDoc.mood - 1)
          /\ file'.data[1].evolution = "Lonely"]_vars

\* an idle feed has brought a pet that had earned a merged pull request
\* (mood 10, logic 3) to mood 9 and Lonely
C11_Witness ==
    /\ res.op = "feed"
    /\ res.err = ""
    /\ res.loaded = "ok"
    /\ AllZeroDoc(Doc.activity)
    /\ Doc.logic_shards = 3
    /\ Doc.kindness = 0
    /\ Doc.mood = 9
    /\ Doc.evolution = "Lonely"

(* C12: a successful feed saves mood = min(100, B + t), with                *)
(* B = max(0, mood - 1) when commits + mergedPRs + reviews + docComments +  *)
(* refactorCommits + newRepos = 0 and B = min(100, mood + commits +         *)
(* 5*mergedPRs + reviews + docComments) otherwise, and t = 1 when local     *)
(* changes are present and 0 when not: the bonus comes after the branch and *)
(* in both branches.                                                        *)

C12_FeedMood ==
    [][(res'.op \in Feeds /\ res'.err = "") =>
          LET a == file'.data[1].activity
              mood == PrevDoc.mood
              total == a.commits + a.merged_prs + a.reviews + a.doc_comments
                       + a.refactor_commits + a.new_repos
              gain == mood + a.commits + 5 * a.merged_prs + a.reviews + a.doc_comments
              B == IF total = 0 THEN (IF mood - 1 > 0 THEN mood - 1 ELSE 0)
                   ELSE (IF gain < 100 THEN gain ELSE 100)
              t == IF a.thought_fragments > 0 THEN 1 ELSE 0
          IN  file'.data[1].mood = (IF B + t < 100 THEN B + t ELSE 100)]_vars

\* an idle feed with local changes has kept the stored mood: 6 - 1 + 1
C12_Witness ==
    /\ res.op = "feed"
    /\ res.err = ""
    /\ res.loaded = "ok"
    /\ Doc.activity.commits = 0 /\ Doc.activity.merged_prs = 0
    /\ Doc.activity.reviews = 0 /\ Doc.activity.doc_comments = 0
    /\ Doc.activity.thought_fragments = 1
    /\ Doc.logic_shards = 1
    /\ Doc.mood = 6

(* C13: every successful feed adds exactly commits + 3*mergedPRs to logic   *)
(* and exactly 2*reviews to kindness, from the summary of that invocation,  *)
(* so that repeated feeds over the same window add the amounts again.       *)

C13_FeedCounters ==
    [][(res'.op \in Feeds /\ res'.err = "") =>
          /\ file'.data[1].logic_shards =
                 PrevDoc.logic_shards + file'.data[1].activity.commits
                 + 3 * file'.data[1].activity.merged_prs
          /\ file'.data[1].kindness =
                 PrevDoc.kindness + 2 * file'.data[1].activity.reviews]_vars

\* feeds over a one-commit window have added the commit three times
C13_Witness ==
    /\ res.op = "feed"
    /\ res.err = ""
    /\ res.loaded = "ok"
    /\ Doc.activity.commits = 1
    /\ Doc.activity.thought_fragments = 0
    /\ Doc.logic_shards = 3
    /\ Doc.mood = 8

(* C20: every state saved by feed, pet_feed or post-commit, from a missing  *)
(* state file onwards, carries one of the labels Lonely, Pioneer, Guardian, *)
(* Bard, Void.                                                              *)

C20_EvolutionInEnum ==
    file.kind = "ok" => Doc.evolution \in {"Lonely", "Pioneer", "Guardian", "Bard", "Void"}

\* a post-commit whose sync failed has renamed the default Lonely to Pioneer
C20_Witness ==
    /\ res.op = "post-commit"
    /\ res.sync = "events"
    /\ res.err = ""
    /\ res.loaded = "missing"
    /\ file.kind = "ok"
    /\ Doc.evolution = "Pioneer"
    /\ AllZeroDoc(Doc.activity)

----------------------------------------------------------------------------
(* The summarizers on their own, as the claims read them *)

Summarized == pure.pc \in {"summarized", "classified"}

\* the events of evs that are not strictly older than now - 7 days
NotOlder(evs, now) ==
    LET keep(e) == ~(e.created < now - 604800) IN SelectSeq(evs, keep)

\* how many events of evs have one of the types and satisfy the test on their time
CountOf(evs, types, inWindow(_)) ==
    Cardinality({i \in DOMAIN evs : evs[i].type \in types /\ inWindow(evs[i].created)})

ReviewTypes == {"PullRequestReviewEvent", "PullRequestReviewCommentEvent"}

\* the field-wise sum of two summaries
Plus(a, b) == [f \in DOMAIN a |-> a[f] + b[f]]

\* evs rearranged by the permutation p of its indices
Rearranged(evs, p) == [i \in 1..Len(evs) |-> evs[p[i]]]

AllZero(summary) == \A f \in DOMAIN summary : summary[f] = 0

\* the scores in the order Pioneer, Guardian, Bard, Void
Scores(s) ==
    <<s.commits + 2 * s.newRepos,
      2 * s.reviews + 2 * s.mergedPRs + s.fixCommits,
      2 * s.docComments + s.docCommits,
      2 * s.refactorCommits>>

Categories == <<"Pioneer", "Guardian", "Bard", "Void">>

\* the earliest category among those with the highest score
Winner(s) ==
    Categories[CHOOSE i \in 1..4 :
                   /\ \A j \in 1..4 : Scores(s)[j] <= Scores(s)[i]
                   /\ \A j \in 1..(i - 1) : Scores(s)[j] < Scores(s)[i]]

ActivityTotal(s) ==
    s.commits + s.mergedPRs + s.reviews + s.docComments + s.refactorCommits + s.newRepos

(* C7: events strictly older than now - 7 days change no field of the       *)
(* summary: summarize of a sequence equals summarize of the sequence with   *)
(* those events left out, wherever they stand.                              *)

C7_OldEventsIgnored ==
    Summarized =>
        /\ pure.sum = summarize(NotOlder(pure.evs, pure.now), pure.now)
        /\ pure.mcpSum = mcpSummarize(NotOlder(pure.evs, pure.now), pure.now)
        /\ pure.handlerSum = handlerSummarize(NotOlder(pure.evs, pure.now), pure.now)

\* a large push one second older than the window stands between two reviews
C7_Witness ==
    /\ pure.pc = "summarized"
    /\ Len(pure.evs) = 3
    /\ pure.evs[2].type = "PushEvent"
    /\ pure.evs[2].created = pure.now - 604800 - 1
    /\ pure.sum.reviews = 2
    /\ pure.sum.commits = 0
    /\ pure.sum.largeCommits = 0

(* C8, as claimed: an event whose timestamp is exactly now - 7 days is      *)
(* excluded from the summary, while an event at now - 7 days + 1 second is  *)
(* included.                                                                *)

C8_Original ==
    Summarized =>
        LET after(t) == t > pure.now - 604800
        IN  pure.sum.reviews = CountOf(pure.evs, ReviewTypes, after)

(* C8, amended: an event whose timestamp is exactly now - 7 days is         *)
(* included in the summary, as is an event at now - 7 days + 1 second; only *)
(* events strictly before now - 7 days (now - 7 days - 1 second) are        *)
(* excluded.                                                                *)

C8_BoundaryIncluded ==
    Summarized =>
        LET notBefore(t) == t >= pure.now - 604800
        IN  /\ pure.sum.reviews = CountOf(pure.evs, ReviewTypes, notBefore)
            /\ pure.mcpSum.reviews = CountOf(pure.evs, ReviewTypes, notBefore)
            /\ pure.handlerSum.reviews = CountOf(pure.evs, ReviewTypes, notBefore)

\* the review at exactly now - 7 days is counted, the one a second older is not
C8_Witness ==
    /\ pure.pc = "summarized"
    /\ Len(pure.evs) = 2
    /\ pure.evs[1].type = "PullRequestReviewEvent"
    /\ pure.evs[1].created = pure.now - 604800
    /\ pure.evs[2].type = "PullRequestReviewEvent"
    /\ pure.evs[2].created = pure.now - 604800 - 1
    /\ pure.sum.reviews = 1

(* C9: summarize is a field-wise sum of per-event contributions: the empty  *)
(* sequence gives the all-zero summary, summarize(A ++ B) is                *)
(* summarize(A) + summarize(B) field by field, and every permutation of the *)
(* same events gives the same summary.                                      *)

C9_SummarizeIsSum ==
    pure.pc = "summarized" =>
        /\ AllZero(summarize(<<>>, pure.now))
        /\ \A k \in 0..Len(pure.evs) :
              pure.sum = Plus(summarize(SubSeq(pure.evs, 1, k), pure.now),
                              summarize(SubSeq(pure.evs, k + 1, Len(pure.evs)),
                                        pure.now))
        /\ \A p \in Permutations(1..Len(pure.evs)) :
              summarize(Rearranged(pure.evs, p), pure.now) = pure.sum

\* three different events, each with a contribution of its own
C9_Witness ==
    /\ pure.pc = "summarized"
    /\ Len(pure.evs) = 3
    /\ pure.evs[1].type = "PullRequestEvent"
    /\ pure.evs[2].type = "PushEvent"
    /\ pure.evs[3].type = "PullRequestEvent"
    /\ pure.sum.mergedPRs = 2
    /\ pure.sum.commits = 2
    /\ pure.sum.docCommits = 1

(* C10: whenever the activity total is non-zero, the evolution label is the *)
(* category with the highest score among pioneer = commits + 2*newRepos,    *)
(* guardian = 2*reviews + 2*mergedPRs + fixCommits, bard = 2*docComments +  *)
(* docCommits, void = 2*refactorCommits, the earliest of Pioneer, Guardian, *)
(* Bard, Void winning among equal top scores; reviews=3, mergedPRs=2,       *)
(* fixCommits=1 gives Guardian and commits=4 alone gives Pioneer.           *)

C10_HighestScoreWins ==
    pure.pc = "classified" =>
        /\ ActivityTotal(pure.sum) # 0 => pure.evo = Winner(pure.sum)
        /\ ActivityTotal(pure.mcpSum) # 0 => pure.mcpEvo = Winner(pure.mcpSum)
        /\ ActivityTotal(pure.handlerSum) # 0 => pure.handlerEvo = Winner(pure.handlerSum)
        /\ (pure.sum.reviews = 3 /\ pure.sum.mergedPRs = 2 /\ pure.sum.fixCommits = 1
            /\ pure.sum.commits <= 1 /\ pure.sum.newRepos = 0
            /\ pure.sum.docComments = 0 /\ pure.sum.docCommits = 0
            /\ pure.sum.refactorCommits = 0) => pure.evo = "Guardian"
        /\ (pure.sum.commits = 4 /\ pure.sum.newRepos = 0 /\ pure.sum.reviews = 0
            /\ pure.sum.mergedPRs = 0 /\ pure.sum.fixCommits = 0
            /\ pure.sum.docComments = 0 /\ pure.sum.docCommits = 0
            /\ pure.sum.refactorCommits = 0) => pure.evo = "Pioneer"

\* pioneer and guardian share the top score and Pioneer is the label
C10_Witness ==
    /\ pure.pc = "classified"
    /\ Scores(pure.sum)[1] = Scores(pure.sum)[2]
    /\ Scores(pure.sum)[1] > Scores(pure.sum)[3]
    /\ Scores(pure.sum)[1] > Scores(pure.sum)[4]
    /\ Scores(pure.sum)[1] > 0
    /\ pure.evo = "Pioneer"

\* the example reviews=3, mergedPRs=2, fixCommits=1 is classified
C10_WitnessGuardian ==
    /\ pure.pc = "classified"
    /\ pure.sum.reviews = 3 /\ pure.sum.mergedPRs = 2 /\ pure.sum.fixCommits = 1
    /\ pure.evo = "Guardian"

\* the example commits=4 alone is classified
C10_WitnessPioneer ==
    /\ pure.pc = "classified"
    /\ pure.sum.commits = 4 /\ ActivityTotal(pure.sum) = 4
    /\ pure.evo = "Pioneer"

----------------------------------------------------------------------------
(* What one event contributes *)

InWindow(e) == e.created >= pure.now - 604800

\* the summary of the event alone, in each front end
One(e) == summarize(<<e>>, pure.now)

McpOne(e) == mcpSummarize(<<e>>, pure.now)

HandlerOne(e) == handlerSummarize(<<e>>, pure.now)

\* the summary has the amounts of incs in the fields incs names and 0 elsewhere
Only(summary, incs) ==
    \A f \in DOMAIN summary : summary[f] = (IF f \in DOMAIN incs THEN incs[f] ELSE 0)

\* q[1] + ... + q[n]
RECURSIVE SumTo(_, _)
SumTo(q, n) == IF n = 0 THEN 0 ELSE q[n] + SumTo(q, n - 1)

\* evs without its i-th event
Without(evs, i) == [j \in 1..(Len(evs) - 1) |-> IF j < i THEN evs[j] ELSE evs[j + 1]]

CountedPush(e) == e.type = "PushEvent" /\ InWindow(e) /\ e.payload.ok

(* C14: in every front end's summarizer an in-window pull-request-review    *)
(* event adds 1 to reviews and nothing else, a pull-request-review-comment  *)
(* event adds 1 to reviews and 1 to docComments, and an issue-comment event *)
(* adds 1 to docComments only.                                              *)

C14_ReviewEventsEveryFrontEnd ==
    Summarized =>
        \A i \in DOMAIN pure.evs :
            LET e == pure.evs[i]
            IN  InWindow(e) =>
                    /\ e.type = "PullRequestReviewEvent" =>
                           /\ Only(One(e), [reviews |-> 1])
                           /\ Only(McpOne(e), [reviews |-> 1])
                           /\ Only(HandlerOne(e), [reviews |-> 1])
                    /\ e.type = "PullRequestReviewCommentEvent" =>
                           /\ Only(One(e), [reviews |-> 1, docComments |-> 1])
                           /\ Only(McpOne(e), [reviews |-> 1, docComments |-> 1])
                           /\ Only(HandlerOne(e), [reviews |-> 1, docComments |-> 1])
                    /\ e.type = "IssueCommentEvent" =>
                           /\ Only(One(e), [docComments |-> 1])
                           /\ Only(McpOne(e), [docComments |-> 1])
                           /\ Only(HandlerOne(e), [docComments |-> 1])

(* C15: in every front end's summarizer a create event adds 1 to newRepos   *)
(* only when its ref-type is "repository"; a create event for a tag or a    *)
(* branch, or with an unparsable payload, adds nothing to newRepos.         *)

C15_CreateEveryFrontEnd ==
    Summarized =>
        \A i \in DOMAIN pure.evs :
            LET e == pure.evs[i]
                repo == IF e.payload.ok /\ e.payload.refType = "repository" THEN 1 ELSE 0
            IN  (InWindow(e) /\ e.type = "CreateEvent") =>
                    /\ One(e).newRepos = repo
                    /\ McpOne(e).newRepos = repo
                    /\ HandlerOne(e).newRepos = repo

(* C16: for each in-window push event with a parsable payload, commits      *)
(* grows by the number of commit messages of the payload and largeCommits   *)
(* by exactly 1 if and only if the size hint is >= 10, once per push; a     *)
(* push with size hint 9 adds nothing to largeCommits.                      *)

C16_PushCounts ==
    pure.pc = "summarized" =>
        LET n == Len(pure.evs)
            commitsOf == [i \in 1..n |->
                             IF CountedPush(pure.evs[i])
                             THEN Len(pure.evs[i].payload.commits) ELSE 0]
            largeOf == [i \in 1..n |->
                           IF CountedPush(pure.evs[i]) /\ pure.evs[i].payload.size >= 10
                           THEN 1 ELSE 0]
        IN  /\ pure.sum.commits = SumTo(commitsOf, n)
            /\ pure.sum.largeCommits = SumTo(largeOf, n)
            /\ pure.mcpSum.commits = SumTo(commitsOf, n)
            /\ pure.mcpSum.largeCommits = SumTo(largeOf, n)
            /\ pure.handlerSum.commits = SumTo(commitsOf, n)
            /\ pure.handlerSum.largeCommits = SumTo(largeOf, n)

\* a push of size 10 with two messages and a push of size 9 with one
C16_Witness ==
    /\ pure.pc = "summarized"
    /\ Len(pure.evs) = 2
    /\ pure.evs[1].type = "PushEvent" /\ pure.evs[1].payload.size = 10
    /\ pure.evs[1].created = pure.now
    /\ pure.evs[2].type = "PushEvent" /\ pure.evs[2].payload.size = 9
    /\ pure.sum.commits = 3
    /\ pure.sum.largeCommits = 1

\* what each commit message of the inputs is: <<fix, doc, refactor>>
MsgClass(m) ==
    CASE m = <<"w","i","p">> -> <<0, 0, 0>>
      [] m = <<"F","i","x">> -> <<1, 0, 0>>
      [] m = <<"d","o","c","s">> -> <<0, 1, 0>>
      [] m = <<"D","e","l","e","t","e">> -> <<0, 0, 1>>
      [] m = <<"B","U","G",":"," ","r","e","m","o","v","e"," ","d","o","c">> -> <<1, 1, 1>>

\* how many messages of the counted pushes of evs are of category c
Classified(evs, c) ==
    LET perPush(e) ==
            SumTo([j \in 1..Len(e.payload.commits) |-> MsgClass(e.payload.commits[j])[c]],
                  Len(e.payload.commits))
    IN  SumTo([i \in 1..Len(evs) |-> IF CountedPush(evs[i]) THEN perPush(evs[i]) ELSE 0],
              Len(evs))

(* C17: the classifier treats the three categories independently: each      *)
(* commit message adds 0 or 1 to each of fixCommits (fix, bug), docCommits  *)
(* (doc, readme, comment) and refactorCommits (refactor, cleanup, remove,   *)
(* delete), whatever the case of the letters, and a message of several      *)
(* categories counts in each; a push with a fix message, a docs message and *)
(* a plain message gives commits=3, fixCommits=1, docCommits=1,             *)
(* refactorCommits=0.                                                       *)

C17_ClassifierIndependent ==
    pure.pc = "summarized" =>
        /\ pure.sum.fixCommits = Classified(pure.evs, 1)
        /\ pure.sum.docCommits = Classified(pure.evs, 2)
        /\ pure.sum.refactorCommits = Classified(pure.evs, 3)
        /\ pure.mcpSum.fixCommits = Classified(pure.evs, 1)
        /\ pure.mcpSum.docCommits = Classified(pure.evs, 2)
        /\ pure.mcpSum.refactorCommits = Classified(pure.evs, 3)
        /\ pure.handlerSum.fixCommits = Classified(pure.evs, 1)
        /\ pure.handlerSum.docCommits = Classified(pure.evs, 2)
        /\ pure.handlerSum.refactorCommits = Classified(pure.evs, 3)

\* the push with a fix message, a docs message and a plain message
C17_Witness ==
    /\ pure.pc = "summarized"
    /\ Len(pure.evs) = 1
    /\ pure.evs[1].type = "PushEvent"
    /\ Len(pure.evs[1].payload.commits) = 3
    /\ pure.sum.commits = 3
    /\ pure.sum.fixCommits = 1
    /\ pure.sum.docCommits = 1
    /\ pure.sum.refactorCommits = 0

\* one message in upper case counted in each of the three categories
C17_WitnessSeveral ==
    /\ pure.pc = "summarized"
    /\ Len(pure.evs) = 1
    /\ pure.sum.commits = 1
    /\ pure.sum.fixCommits = 1
    /\ pure.sum.docCommits = 1
    /\ pure.sum.refactorCommits = 1

(* C18: an in-window pull-request event adds exactly 1 to mergedPRs when    *)
(* its merged flag is true and changes no field of the summary when the     *)
(* flag is false.                                                           *)

C18_MergedOnly ==
    pure.pc = "summarized" =>
        \A i \in DOMAIN pure.evs :
            LET e == pure.evs[i]
            IN  (InWindow(e) /\ e.type = "PullRequestEvent" /\ e.payload.ok) =>
                    IF e.payload.merged
                    THEN /\ Only(One(e), [mergedPRs |-> 1])
                         /\ Only(McpOne(e), [mergedPRs |-> 1])
                         /\ Only(HandlerOne(e), [mergedPRs |-> 1])
                    ELSE /\ AllZero(One(e))
                         /\ AllZero(McpOne(e))
                         /\ AllZero(HandlerOne(e))
                         /\ summarize(Without(pure.evs, i), pure.now) = pure.sum

\* an unmerged pull request beside a merged one: one merged pull request
C18_Witness ==
    /\ pure.pc = "summarized"
    /\ Len(pure.evs) = 2
    /\ pure.evs[1].type = "PullRequestEvent" /\ ~pure.evs[1].payload.merged
    /\ pure.evs[2].type = "PullRequestEvent" /\ pure.evs[2].payload.merged
    /\ pure.sum.mergedPRs = 1

\* the events the command line and the tool server have nothing to count for
Ignored(e) ==
    \/ e.type \notin {"PushEvent", "PullRequestEvent", "PullRequestReviewEvent",
                      "PullRequestReviewCommentEvent", "IssueCommentEvent", "CreateEvent"}
    \/ e.type \in {"PushEvent", "PullRequestEvent", "CreateEvent"} /\ ~e.payload.ok

(* C19: an event of an unknown type, or a push, pull-request or create      *)
(* event whose payload cannot be parsed, contributes zero to every field of *)
(* the summary, raises no error, and does not stop the events after it from *)
(* being counted.                                                           *)

C19_IgnoredEvents ==
    pure.pc = "summarized" =>
        \A i \in DOMAIN pure.evs :
            Ignored(pure.evs[i]) =>
                /\ AllZero(One(pure.evs[i]))
                /\ AllZero(McpOne(pure.evs[i]))
                /\ summarize(Without(pure.evs, i), pure.now) = pure.sum
                /\ mcpSummarize(Without(pure.evs, i), pure.now) = pure.mcpSum

\* unparsable payloads and an unknown type among a review and an issue
\* comment, which are counted
C19_Witness ==
    /\ pure.pc = "summarized"
    /\ Len(pure.evs) = 6
    /\ pure.evs[1].type = "PushEvent" /\ ~pure.evs[1].payload.ok
    /\ pure.evs[3].type = "PullRequestEvent" /\ ~pure.evs[3].payload.ok
    /\ pure.evs[4].type = "CreateEvent" /\ ~pure.evs[4].payload.ok
    /\ pure.evs[5].type = "WatchEvent"
    /\ Only(pure.sum, [reviews |-> 1, docComments |-> 1])

----------------------------------------------------------------------------
(* The stored label against the stored activity *)

\* the stored activity under the names of the summary's fields
DocSummary(a) ==
    [commits |-> a.commits, mergedPRs |-> a.merged_prs, reviews |-> a.reviews,
     docComments |-> a.doc_comments, refactorCommits |-> a.refactor_commits,
     newRepos |-> a.new_repos, largeCommits |-> a.large_commits,
     thoughts |-> a.thought_fragments, fixCommits |-> a.fix_commits,
     docCommits |-> a.doc_commits]

\* the classification of a stored activity
Label(a) ==
    IF ActivityTotal(DocSummary(a)) = 0 THEN "Lonely" ELSE Winner(DocSummary(a))

PioneerIfLonely(label) == IF label \in {"", "Lonely"} THEN "Pioneer" ELSE label

(* C22, as claimed: in every state saved by feed, pet_feed or post-commit   *)
(* the stored evolution equals the classification of the stored activity;   *)
(* a stored activity of total zero is always paired with Lonely.            *)

C26_PostCommitFormula ==
    [][(res'.op = "post-commit" /\ res'.err = "") =>
          LET new == file'.data[1]
              a == new.activity
          IN  /\ new.mood = (IF PrevDoc.mood + 3 < 100 THEN PrevDoc.mood + 3 ELSE 100)
              /\ new.evolution # "Lonely"
              /\ IF res'.sync = "ok"
                 THEN /\ new.logic_shards =
                             PrevDoc.logic_shards + 1 + a.commits + 3 * a.merged_prs
                      /\ new.kindness = PrevDoc.kindness + 2 * a.reviews
                      /\ new.evolution = PioneerIfLonely(Label(a))
                 ELSE /\ new.logic_shards = PrevDoc.logic_shards + 1
                      /\ new.kindness = PrevDoc.kindness
                      /\ new.evolution = PioneerIfLonely(PrevDoc.evolution)]_vars

\* a post-commit has synced a review over a stored state
C26_Witness ==
    /\ res.op = "post-commit"
    /\ res.sync = "ok"
    /\ res.err = ""
    /\ res.loaded = "ok"
    /\ file.kind = "ok"
    /\ Doc.activity.reviews = 1
    /\ Doc.kindness = 2
    /\ Doc.logic_shards = 2
    /\ Doc.evolution = "Guardian"

----------------------------------------------------------------------------
(* The command line against the tool server *)

\* previous states a feed starts from: the default, the zero state of an
\* unparsable file, a pet after one merged pull request, and pets one feed
\* below and at the ceiling of the mood
PrevStates ==
    { DefaultState, ZeroState, AfterMerges(1),
      AfterMerges(MaxBoosts - 1), AfterMerges(MaxBoosts) }

PrevFiles == {NoFile, BadFile} \cup { FileOf(st) : st \in PrevStates \ {ZeroState} }

(* C25: the command line's feed and the tool server's pet_feed are the same *)
(* transition: for every previous state, event sequence and local-change    *)
(* signal they produce the same summary and the same next mood, kindness,   *)
(* logic, evolution, version and stored activity; their copies of summarize *)
(* and evolutionFor agree on every input.                                   *)

C25_FeedEqualsPetFeed ==
    pure.pc = "classified" =>
        /\ pure.sum = pure.mcpSum
        /\ pure.evo = pure.mcpEvo
        /\ \A prev \in PrevStates, thoughts \in {0, 1} :
              feedState(prev, [pure.sum EXCEPT !.thoughts = thoughts], thoughts, pure.now)
                  = mcpFeedState(prev, [pure.mcpSum EXCEPT !.thoughts = thoughts],
                                 thoughts, pure.now)
        /\ \A f \in PrevFiles :
              /\ runFeed(f, FALSE, TRUE, pure.evs, pure.now, 0, TRUE)
                     = handleFeed(f, FALSE, TRUE, pure.evs, pure.now, 0, TRUE)
              /\ runFeed(f, TRUE, FALSE, pure.evs, pure.now, 0, TRUE)
                     = handleFeed(f, TRUE, FALSE, pure.evs, pure.now, 0, TRUE)
              /\ runFeed(f, TRUE, TRUE, pure.evs, pure.now, 1, FALSE)
                     = handleFeed(f, TRUE, TRUE, pure.evs, pure.now, 1, FALSE)

\* both copies have counted a repository, a branch and a three-category
\* commit, and both call the pet Pioneer
C25_Witness ==
    /\ pure.pc = "classified"
    /\ Len(pure.evs) = 3
    /\ pure.sum.newRepos = 1
    /\ pure.sum.commits = 1
    /\ pure.sum.refactorCommits = 1
    /\ pure.evs[2].type = "CreateEvent" /\ pure.evs[2].payload.refType = "branch"
    /\ pure.mcpSum.newRepos = 1
    /\ pure.evo = "Pioneer"
    /\ pure.mcpEvo = "Pioneer"

(* C27: in every summary the command line's or the tool server's summarize  *)
(* produces, fixCommits, docCommits and refactorCommits are each at most    *)
(* commits, and so evolutionFor returns Lonely exactly when all four scores *)
(* are zero.                                                                *)

C27_CategoriesWithinCommits ==
    pure.pc = "classified" =>
        /\ pure.sum.fixCommits <= pure.sum.commits
        /\ pure.sum.docCommits <= pure.sum.commits
        /\ pure.sum.refactorCommits <= pure.sum.commits
        /\ pure.mcpSum.fixCommits <= pure.mcpSum.commits
        /\ pure.mcpSum.docCommits <= pure.mcpSum.commits
        /\ pure.mcpSum.refactorCommits <= pure.mcpSum.commits
        /\ pure.evo = "Lonely" <=> (\A j \in 1..4 : Scores(pure.sum)[j] = 0)
        /\ pure.mcpEvo = "Lonely" <=> (\A j \in 1..4 : Scores(pure.mcpSum)[j] = 0)

\* an unmerged pull request and a branch leave every score at zero: Lonely
C27_Witness ==
    /\ pure.pc = "classified"
    /\ Len(pure.evs) = 2
    /\ pure.evs[1].type = "PullRequestEvent" /\ InWindow(pure.evs[1])
    /\ pure.evs[2].type = "CreateEvent" /\ InWindow(pure.evs[2])
    /\ \A j \in 1..4 : Scores(pure.sum)[j] = 0
    /\ pure.evo = "Lonely"

\* every commit of the window is a fix commit
C27_WitnessAllFix ==
    /\ pure.pc = "classified"
    /\ pure.sum.commits = 2
    /\ pure.sum.fixCommits = 2
    /\ pure.evo # "Lonely"

----------------------------------------------------------------------------
(* The surfaces that only read the state, as the claims read them *)

ReadOnly == {"status", "prompt", "suggest", "pet_status", "pet_suggest", "chat"}

Displays == {"status", "prompt", "pet_status"}

(* C21: the read-only surfaces (status, prompt and suggest on the command  *)
(* line, pet_status and pet_suggest on the tool server, the chat handler)   *)
(* leave the stored state, every field of it, as it was; the Lonely that    *)
(* status, prompt and pet_status show for an empty evolution is shown only, *)
(* never saved.                                                             *)

C21_ReadOnlySurfaces ==
    [][res'.op \in ReadOnly =>
          /\ file' = file
          /\ (res'.op \in Displays /\ loadState(file).state.evolution = "") =>
                 /\ res'.shown.evolution = "Lonely"
                 /\ loadState(file').state.evolution = ""]_vars

\* status has shown Lonely for a state file that does not parse, and the
\* file is what it was
C21_Witness ==
    /\ res.op = "status"
    /\ res.loaded = "corrupt"
    /\ res.shown.evolution = "Lonely"
    /\ res.shown.mood = 0
    /\ file = BadFile

\* the chat handler has shown a Guardian to a user whose own state file
\* holds a Pioneer
C21_WitnessChat ==
    /\ res.op = "chat"
    /\ res.err = ""
    /\ res.shown.evolution = "Guardian"
    /\ file.kind = "ok"
    /\ file.data[1].evolution = "Pioneer"

----------------------------------------------------------------------------
(* The idle period, as the claims read it *)

(* C24: when from some point on every invocation is a successful feed over *)
(* a window without counted activity and without local changes, the mood    *)
(* drops by exactly 1 at each feed until it is 0, is eventually 0, and then *)
(* stays 0.                                                                 *)

C24_MoodDecaysToZero ==
    /\ [][res'.op \in Feeds =>
             /\ file'.kind = "ok"
             /\ file'.data[1].mood = max(0, loadState(file).state.mood - 1)]_vars
    /\ <>[](file.kind = "ok" /\ file.data[1].mood = 0)

\* a pet fed up to the ceiling of the mood has decayed to 0
C24_Witness ==
    /\ res.op \in Feeds
    /\ res.loaded = "ok"
    /\ file.kind = "ok"
    /\ file.data[1].mood = 0
    /\ file.data[1].logic_shards = 3 * MaxBoosts
    /\ file.data[1].evolution = "Lonely"

----------------------------------------------------------------------------
(* Two overlapping feeds, as the claims read them *)

BothDone == race.pc = <<"done", "done">>

(* C23: when two feeds overlap, both loading before either saves, the state *)
(* on disk after both have finished is exactly the complete state computed  *)
(* by the invocation that saved last: the last writer wins, the fields of   *)
(* the two are never mixed, and the other update is discarded.              *)

C23_LastWriterWins ==
    (BothDone /\ race.overlap) => file = FileOf(race.state[race.last])

\* both feeds have finished, the last writer's document is the shorter one,
\* and the file is not a document any more
C23_Torn ==
    /\ BothDone
    /\ race.overlap
    /\ file = BadFile
    /\ race.len > DocLen(Marshal(race.state[race.last]))

====
